---- MODULE Spec2Model ----
(***************************************************************************)
(* libgwavi: the AVI container writer of src/src/gwavi.c.                  *)
(*                                                                         *)
(* The output file is modelled byte by byte (a sequence of 0..255 and a    *)
(* file position), the writer structure gwavi_t field by field.  The       *)
(* primitives of fileio.c and avi-utils.c (write_int, write_chars_bin,     *)
(* write_avi_header_chunk, write_index) are not part of src/; they are     *)
(* modelled from sections 4.5 and 6 of the specification.                  *)
(***************************************************************************)
EXTENDS Integers, Sequences, FiniteSets, TLC

VARIABLES
    pc,          \* what the caller holds: "start", "open", "openFailed",
                 \* "closed", "closeFailed", "crashed"
    gwavi,       \* struct gwavi_t (the header model, marker, index counters)
    offsets,     \* the entries stored in gwavi->offsets, in store order
    file,        \* the bytes of the output file
    pos,         \* the file position of gwavi->out (0-based)
    sink,        \* FILE *out: "none", "open", "closed"
    fcloseCalls, \* how many times fclose was called on the sink
    gwaviMem,    \* the malloc'ed gwavi_t: "none", "live", "freed"
    offsetsMem,  \* the index buffer: "none", "live", "null", "freed"
    ret,         \* what the last call returned
    lastOp,      \* history: the last call and the failures injected into it
    calls,       \* history: the add_frame / add_audio calls made, in order
    idxHanded,   \* history: the (count, entries) given to write_index
    params,      \* history: the parameters the caller gave last (open, setters)
    patches,     \* history: how many writes touched each size placeholder
    wide         \* the index entry computed for a length beyond the file model

vars == <<pc, gwavi, offsets, file, pos, sink, fcloseCalls, gwaviMem,
          offsetsMem, ret, lastOp, calls, idxHanded, params, patches, wide>>

(***************************************************************************)
(* Bounds of the model.                                                    *)
(***************************************************************************)
MaxLen == 3       \* payload lengths 0..MaxLen
MaxChunks == 2    \* appends per run in Spec and SpecIO
GrowSlack == 1    \* SpecGrow: appends made before the one that grows the index
GrowExtra == 1    \* SpecGrow: appends allowed after the growth point
MaxWide == 2      \* SpecWide: lengths below (MaxWide + 1) * 2^31

(***************************************************************************)
(* Program constants.                                                      *)
(***************************************************************************)
IndexChunk == 1024        \* initial capacity and growth step of the index
HeaderOffset == 12        \* where close rewrites the header chunk
RiffSizeOffset == 4       \* where close patches the RIFF size
MinInt32 == -2147483647 - 1    \* 0x80000000 as a 32-bit int

\* Four-character tags, as ASCII codes.
TagRIFF == <<82, 73, 70, 70>>
TagAVI  == <<65, 86, 73, 32>>
TagLIST == <<76, 73, 83, 84>>
TagMovi == <<109, 111, 118, 105>>
Tag00dc == <<48, 48, 100, 99>>
Tag01wb == <<48, 49, 119, 98>>
TagIdx1 == <<105, 100, 120, 49>>
TagAvih == <<97, 118, 105, 104>>
TagStrl == <<115, 116, 114, 108>>
TagStrh == <<115, 116, 114, 104>>
TagStrf == <<115, 116, 114, 102>>
TagVids == <<118, 105, 100, 115>>
TagAuds == <<97, 117, 100, 115>>
FccXVID == <<88, 86, 73, 68>>
FccMJPG == <<77, 74, 80, 71>>
Zero4   == <<0, 0, 0, 0>>

(***************************************************************************)
(* Byte-level primitives (fileio.c, from section 6 of the specification).  *)
(***************************************************************************)
\* The four little-endian bytes of a 32-bit int (two's complement).
Bytes4(v) ==
    <<v % 256, (v \div 256) % 256, (v \div 65536) % 256,
      (v \div 16777216) % 256>>

\* The two little-endian bytes of a 16-bit value.
Bytes2(v) == <<v % 256, (v \div 256) % 256>>

\* The signed 32-bit int stored little-endian at byte offset off of f.
ReadInt(f, off) ==
    LET b3 == f[off + 4]
    IN  f[off + 1] + 256 * f[off + 2] + 65536 * f[off + 3]
        + 16777216 * (IF b3 >= 128 THEN b3 - 256 ELSE b3)

\* The n bytes of f starting at byte offset off.
ReadBytes(f, off, n) == [i \in 1..n |-> f[off + i]]

\* f after writing bytes at position p: overwrites, and extends at the end.
WriteAt(f, p, bytes) ==
    SubSeq(f, 1, p) \o bytes \o SubSeq(f, p + Len(bytes) + 1, Len(f))

\* n zero bytes.
Zeros(n) == [i \in 1..n |-> 0]

\* The caller's buffer of a given length: non-zero bytes, so that the pad
\* is told apart from the payload.
Buffer(len) == [i \in 1..len |-> 200 + (i % 50)]

(***************************************************************************)
(* The header model of struct gwavi_t.                                     *)
(***************************************************************************)
\* The structure after memset(gwavi, 0, sizeof(struct gwavi_t)).
ZeroWriter ==
    [ avi_header |->
        [ time_delay |-> 0, data_rate |-> 0, flags |-> 0,
          number_of_frames |-> 0, data_streams |-> 0, buffer_size |-> 0,
          width |-> 0, height |-> 0 ],
      stream_header_v |->
        [ data_type |-> Zero4, codec |-> Zero4, time_scale |-> 0,
          data_rate |-> 0, data_length |-> 0, buffer_size |-> 0,
          quality |-> 0, sample_size |-> 0 ],
      stream_format_v |->
        [ header_size |-> 0, width |-> 0, height |-> 0, num_planes |-> 0,
          bits_per_pixel |-> 0, compression_type |-> 0, image_size |-> 0,
          colors_used |-> 0, colors_important |-> 0, palette |-> 0,
          palette_count |-> 0 ],
      stream_header_a |->
        [ data_type |-> Zero4, codec |-> Zero4, time_scale |-> 0,
          data_rate |-> 0, data_length |-> 0, buffer_size |-> 0,
          quality |-> 0, sample_size |-> 0 ],
      stream_format_a |->
        [ format_type |-> 0, channels |-> 0, sample_rate |-> 0,
          bytes_per_second |-> 0, block_align |-> 0, bits_per_sample |-> 0,
          size |-> 0 ],
      marker |-> 0, offsets_len |-> 0, offsets_ptr |-> 0,
      offset_count |-> 0 ]

\* C division of ints: the quotient truncated toward zero.
CDiv(a, b) ==
    IF (a >= 0) = (b > 0) THEN (IF a >= 0 THEN a ELSE -a) \div (IF b > 0 THEN b ELSE -b)
    ELSE -((IF a >= 0 THEN a ELSE -a) \div (IF b > 0 THEN b ELSE -b))

\* The fourcc packed into an int: byte 0 in bits 0-7 ... byte 3 in bits 24-31.
CompressionType(fourcc) ==
    fourcc[4] * 16777216 + fourcc[3] * 65536 + fourcc[2] * 256 + fourcc[1]

\* gwavi_open, "set avi header" .. "set stream format" of the video stream.
OpenVideoHeaders(g, width, height, fourcc, fps, audio) ==
    [ g EXCEPT
        !.avi_header =
            [ @ EXCEPT !.time_delay = CDiv(1000000, fps),
                       !.data_rate = width * height * 3,
                       !.flags = 16,
                       !.data_streams = IF audio.present THEN 2 ELSE 1,
                       !.number_of_frames = 0,
                       !.width = width,
                       !.height = height,
                       !.buffer_size = width * height * 3 ],
        !.stream_header_v =
            [ @ EXCEPT !.data_type = TagVids,
                       !.codec = fourcc,
                       !.time_scale = 1,
                       !.data_rate = fps,
                       !.buffer_size = width * height * 3,
                       !.data_length = 0 ],
        !.stream_format_v =
            [ @ EXCEPT !.header_size = 40,
                       !.width = width,
                       !.height = height,
                       !.num_planes = 1,
                       !.bits_per_pixel = 24,
                       !.compression_type = CompressionType(fourcc),
                       !.image_size = width * height * 3,
                       !.colors_used = 0,
                       !.colors_important = 0,
                       !.palette = 0,
                       !.palette_count = 0 ] ]

\* gwavi_open, the "if (audio)" block.
OpenAudioHeaders(g, audio) ==
    IF ~audio.present THEN g
    ELSE
    [ g EXCEPT
        !.stream_header_a =
            [ @ EXCEPT !.data_type = TagAuds,
                       !.codec = <<1, 0, 0, 0>>,
                       !.time_scale = 1,
                       !.data_rate = audio.samples_per_second,
                       !.buffer_size = audio.channels * (audio.bits \div 8)
                                       * audio.samples_per_second,
                       !.quality = -1,
                       !.sample_size = (audio.bits \div 8) * audio.channels ],
        !.stream_format_a =
            [ @ EXCEPT !.format_type = 1,
                       !.channels = audio.channels,
                       !.sample_rate = audio.samples_per_second,
                       !.bytes_per_second = audio.channels * (audio.bits \div 8)
                                            * audio.samples_per_second,
                       !.block_align = audio.channels * (audio.bits \div 8),
                       !.bits_per_sample = audio.bits,
                       !.size = 0 ] ]

\* The header model gwavi_open builds before it writes anything.
OpenHeaders(width, height, fourcc, fps, audio) ==
    OpenAudioHeaders(
        OpenVideoHeaders(ZeroWriter, width, height, fourcc, fps, audio),
        audio)

(***************************************************************************)
(* write_avi_header_chunk (avi-utils.c), from section 6 of the             *)
(* specification: the "avih" chunk, then one stream list per stream.       *)
(***************************************************************************)
AviHeaderBytes(h) ==
    TagAvih \o Bytes4(56)
    \o Bytes4(h.time_delay) \o Bytes4(h.data_rate) \o Bytes4(0)
    \o Bytes4(h.flags) \o Bytes4(h.number_of_frames) \o Bytes4(0)
    \o Bytes4(h.data_streams) \o Bytes4(h.buffer_size)
    \o Bytes4(h.width) \o Bytes4(h.height)
    \o Zero4 \o Zero4 \o Zero4 \o Zero4

StreamHeaderBytes(sh) ==
    TagStrh \o Bytes4(56)
    \o sh.data_type \o sh.codec \o Bytes4(0) \o Bytes4(0) \o Bytes4(0)
    \o Bytes4(sh.time_scale) \o Bytes4(sh.data_rate) \o Bytes4(0)
    \o Bytes4(sh.data_length) \o Bytes4(sh.buffer_size)
    \o Bytes4(sh.quality) \o Bytes4(sh.sample_size)
    \o Zero4 \o Zero4

StreamFormatVBytes(sf) ==
    TagStrf \o Bytes4(40)
    \o Bytes4(sf.header_size) \o Bytes4(sf.width) \o Bytes4(sf.height)
    \o Bytes2(sf.num_planes) \o Bytes2(sf.bits_per_pixel)
    \o Bytes4(sf.compression_type) \o Bytes4(sf.image_size)
    \o Bytes4(0) \o Bytes4(0)
    \o Bytes4(sf.colors_used) \o Bytes4(sf.colors_important)

StreamFormatABytes(sf) ==
    TagStrf \o Bytes4(18)
    \o Bytes2(sf.format_type) \o Bytes2(sf.channels)
    \o Bytes4(sf.sample_rate) \o Bytes4(sf.bytes_per_second)
    \o Bytes2(sf.block_align) \o Bytes2(sf.bits_per_sample)
    \o Bytes2(sf.size)

\* "LIST" / size / "strl" / body.
StreamList(body) == TagLIST \o Bytes4(4 + Len(body)) \o TagStrl \o body

HeaderChunkBytes(g) ==
    AviHeaderBytes(g.avi_header)
    \o StreamList(StreamHeaderBytes(g.stream_header_v)
                  \o StreamFormatVBytes(g.stream_format_v))
    \o (IF g.avi_header.data_streams = 2
        THEN StreamList(StreamHeaderBytes(g.stream_header_a)
                        \o StreamFormatABytes(g.stream_format_a))
        ELSE <<>>)

\* Where the header's frame count lies in the file: the fifth field of the
\* "avih" chunk written at HeaderOffset.
FrameCountOffset == HeaderOffset + 8 + 16

(***************************************************************************)
(* Failure injection.  A call is given the number of the I/O or allocation *)
(* step that fails in it (0: none); the steps of each call are numbered in *)
(* the order the code performs them.                                       *)
(***************************************************************************)
\* Step number step was performed and succeeded.
Reached(step, fail) == fail = 0 \/ step < fail

\* after: for gwavi_close, the call that was made before it.
NoOp == [op |-> "none", fail |-> 0, grow |-> FALSE, growFailed |-> FALSE,
         after |-> "none"]

\* No parameters given yet, no placeholder written, no wide length tried.
NoParams == [width |-> 0, height |-> 0, fourcc |-> Zero4, fps |-> 0,
             audio |-> [present |-> FALSE, channels |-> 0, bits |-> 0,
                        samples_per_second |-> 0]]
NoPatches == [riff |-> 0, movi |-> 0]
NoWide == [op |-> "none", len |-> [hi |-> 0, lo |-> 0], entry |-> 0]

\* 1 when a write of n bytes at position p touches the four bytes at off.
Touch(p, n, off) == IF n > 0 /\ p < off + 4 /\ off < p + n THEN 1 ELSE 0

Init ==
    /\ pc = "start"
    /\ gwavi = ZeroWriter
    /\ offsets = <<>>
    /\ file = <<>>
    /\ pos = 0
    /\ sink = "none"
    /\ fcloseCalls = 0
    /\ gwaviMem = "none"
    /\ offsetsMem = "none"
    /\ ret = "none"
    /\ lastOp = NoOp
    /\ calls = <<>>
    /\ idxHanded = [count |-> -1, entries |-> <<>>]
    /\ params = NoParams
    /\ patches = NoPatches
    /\ wide = NoWide

(***************************************************************************)
(* gwavi_open.  Steps: 1 fopen, 2 malloc(gwavi_t), 3 "RIFF", 4 size        *)
(* placeholder, 5 "AVI ", 6 write_avi_header_chunk, 7 "LIST", 8 ftell,     *)
(* 9 size placeholder, 10 "movi", 11 malloc(offsets).                      *)
(***************************************************************************)
OpenSteps == 11

\* A gwavi_open that does not test the malloc of the index buffer.
OpenReturnNoIndexCheck(fail) ==
    IF fail \in {0, OpenSteps} THEN "gwavi" ELSE "NULL"

\* What gwavi_open returns: every failing step leaves through return NULL.
OpenReturn(fail) == IF fail = 0 THEN "gwavi" ELSE "NULL"

\* The bytes gwavi_open has written when step fail fails (all, when none does).
OpenBytes(g, fail) ==
    (IF Reached(3, fail) THEN TagRIFF ELSE <<>>)
    \o (IF Reached(4, fail) THEN Bytes4(0) ELSE <<>>)
    \o (IF Reached(5, fail) THEN TagAVI ELSE <<>>)
    \o (IF Reached(6, fail) THEN HeaderChunkBytes(g) ELSE <<>>)
    \o (IF Reached(7, fail) THEN TagLIST ELSE <<>>)
    \o (IF Reached(9, fail) THEN Bytes4(0) ELSE <<>>)
    \o (IF Reached(10, fail) THEN TagMovi ELSE <<>>)

\* A marker taken after the size placeholder instead of before it.
OpenMarkerAfterSize(g) == HeaderOffset + Len(HeaderChunkBytes(g)) + 8

\* The position ftell reports at step 8: after "LIST".
OpenMarker(g) == HeaderOffset + Len(HeaderChunkBytes(g)) + 4

gwavi_open(width, height, fourcc, fps, audio, fail) ==
    LET h == OpenHeaders(width, height, fourcc, fps, audio)
        g == [h EXCEPT
                !.marker = IF Reached(8, fail) THEN OpenMarker(h) ELSE 0,
                !.offsets_len = IF Reached(10, fail) THEN IndexChunk ELSE 0,
                !.offsets_ptr = 0]
        bytes == OpenBytes(h, fail)
    IN  /\ pc = "start"
        /\ fail \in 0..OpenSteps
        /\ sink' = IF Reached(1, fail) THEN "open" ELSE "none"
        /\ gwaviMem' = IF Reached(2, fail) THEN "live" ELSE "none"
        /\ gwavi' = IF Reached(2, fail) THEN g ELSE gwavi
        /\ file' = bytes
        /\ pos' = Len(bytes)
        /\ offsetsMem' = IF Reached(OpenSteps, fail) THEN "live" ELSE "none"
        /\ offsets' = <<>>
        /\ ret' = OpenReturn(fail)
        /\ pc' = IF ret' = "gwavi" THEN "open" ELSE "openFailed"
        /\ lastOp' = [NoOp EXCEPT !.op = "open", !.fail = fail]
        /\ params' = [width |-> width, height |-> height, fourcc |-> fourcc,
                       fps |-> fps, audio |-> audio]
        /\ patches' = [riff |-> IF Reached(4, fail) THEN 1 ELSE 0,
                        movi |-> IF Reached(9, fail) THEN 1 ELSE 0]
        /\ UNCHANGED <<fcloseCalls, calls, idxHanded, wide>>

(***************************************************************************)
(* gwavi_add_frame and gwavi_add_audio.  I/O steps: 1 the chunk tag,       *)
(* 2 the length field, 3 fwrite of the payload (short: the byte count it   *)
(* reports), 4 fputc of a pad byte (short: the pad bytes written before).  *)
(* growFail: realloc returns NULL.  ub: what the store through the NULL    *)
(* buffer then does, "crash" or "continue".                                *)
(***************************************************************************)
AddSteps == 4

\* A pad left at len % 4, without the 4 - maxi_pad step.
MaxiPadRemainder(len) == len % 4

\* maxi_pad: the bytes that round len up to a multiple of 4.
MaxiPad(len) == LET m == len % 4 IN IF m > 0 THEN 4 - m ELSE m

\* A growth test that fires one append too late.
NeedsGrowLate(count, cap) == count > cap + 1

\* A growth test that fires when the buffer is full, not one entry before.
NeedsGrowWhenFull(count, cap) == count > cap

\* The test that decides to grow the index buffer.
NeedsGrow(count, cap) == count >= cap

\* (int)(len + maxi_pad), for the lengths the model reaches.
ChunkLength(len, pad) == len + pad

\* The index entry of a video chunk.
VideoEntry(len, pad) == ChunkLength(len, pad)

\* An audio entry without the | 0x80000000.
AudioEntryUntagged(len, pad) == ChunkLength(len, pad)

\* The index entry of an audio chunk: (len + maxi_pad) | 0x80000000.
AudioEntry(len, pad) == ChunkLength(len, pad) + MinInt32

\* Bit 31 of an index entry, and its low 31 bits.
IsAudioEntry(e) == e < 0
EntrySize(e) == IF e < 0 THEN e - MinInt32 ELSE e

\* A data_length that is added before the chunk is written.
AudioLengthCountedFirst(old, len, pad, ok) == old + ChunkLength(len, pad)

\* stream_header_a.data_length after an audio append: the addition is the
\* last statement of gwavi_add_audio, reached when every write succeeded.
AudioLengthAfter(old, len, pad, ok) ==
    IF ok THEN old + ChunkLength(len, pad) ELSE old

\* The bytes of the chunk that reach the file when step fail fails.
ChunkBytes(tag, len, pad, fail, short) ==
    (IF Reached(1, fail) THEN tag ELSE <<>>)
    \o (IF Reached(2, fail) THEN Bytes4(ChunkLength(len, pad)) ELSE <<>>)
    \o (IF Reached(3, fail) THEN Buffer(len)
        ELSE IF fail = 3 THEN SubSeq(Buffer(len), 1, short) ELSE <<>>)
    \o (IF Reached(4, fail) THEN Zeros(pad)
        ELSE IF fail = 4 THEN Zeros(short) ELSE <<>>)

\* The inputs of an append that make sense together.
AddInputsOk(len, fail, short, growFail, ub) ==
    /\ fail \in 0..AddSteps
    /\ fail = 3 => short \in 0..(len - 1)
    /\ fail = 4 => short \in 0..(MaxiPad(len) - 1)
    /\ fail \notin {3, 4} => short = 0
    /\ growFail =>
         NeedsGrow(gwavi.offset_count + 1, gwavi.offsets_len)
    /\ ub \in {"crash", "continue"}
    /\ ub = "crash" => (growFail \/ offsetsMem = "null")

\* The counters and the index buffer after the growth test and the store of
\* entry; the chunk is written after it.
AddCommon(g0, tag, entry, len, fail, short, growFail, ub, opname) ==
    LET pad == MaxiPad(len)
        grows == NeedsGrow(g0.offset_count, g0.offsets_len)
        g1 == [g0 EXCEPT
                 !.offsets_len = IF grows THEN @ + IndexChunk ELSE @,
                 !.offsets_ptr = @ + 1]
        mem == IF grows /\ growFail THEN "null" ELSE offsetsMem
        bytes == ChunkBytes(tag, len, pad, fail, short)
        ok == fail = 0
        g2 == IF opname = "audio"
              THEN [g1 EXCEPT !.stream_header_a.data_length =
                                  AudioLengthAfter(@, len, pad, ok)]
              ELSE g1
        crash == mem = "null" /\ ub = "crash"
    IN  /\ offsetsMem' = mem
        /\ lastOp' = [op |-> opname, fail |-> fail, grow |-> grows,
                      growFailed |-> grows /\ growFail, after |-> "none"]
        /\ IF crash
           THEN /\ pc' = "crashed"
                /\ ret' = "crash"
                /\ gwavi' = [g1 EXCEPT !.offsets_ptr = g0.offsets_ptr]
                /\ calls' = Append(calls, [op |-> opname, len |-> len,
                                           ret |-> "crash", at |-> pos])
                /\ UNCHANGED <<offsets, file, pos, patches>>
           ELSE /\ pc' = pc
                /\ ret' = IF ok THEN "0" ELSE "-1"
                /\ gwavi' = g2
                /\ offsets' = IF mem = "null" THEN offsets
                              ELSE Append(offsets, entry)
                /\ file' = WriteAt(file, pos, bytes)
                /\ pos' = pos + Len(bytes)
                /\ calls' = Append(calls, [op |-> opname, len |-> len,
                                           ret |-> ret', at |-> pos])
                /\ patches' =
                     [riff |-> patches.riff
                               + Touch(pos, Len(bytes), RiffSizeOffset),
                      movi |-> patches.movi
                               + Touch(pos, Len(bytes), g0.marker)]
        /\ UNCHANGED <<sink, fcloseCalls, gwaviMem, idxHanded, params, wide>>

gwavi_add_frame(len, fail, short, growFail, ub) ==
    /\ pc = "open"
    /\ AddInputsOk(len, fail, short, growFail, ub)
    /\ AddCommon([gwavi EXCEPT !.offset_count = @ + 1,
                               !.stream_header_v.data_length = @ + 1],
                 Tag00dc, VideoEntry(len, MaxiPad(len)),
                 len, fail, short, growFail, ub, "frame")

\* A gwavi_add_audio that does not advance the chunk counter.
gwavi_add_audio_Uncounted(len, fail, short, growFail, ub) ==
    /\ pc = "open"
    /\ AddInputsOk(len, fail, short, growFail, ub)
    /\ AddCommon(gwavi, Tag01wb, AudioEntry(len, MaxiPad(len)),
                 len, fail, short, growFail, ub, "audio")

gwavi_add_audio(len, fail, short, growFail, ub) ==
    /\ pc = "open"
    /\ AddInputsOk(len, fail, short, growFail, ub)
    /\ AddCommon([gwavi EXCEPT !.offset_count = @ + 1],
                 Tag01wb, AudioEntry(len, MaxiPad(len)),
                 len, fail, short, growFail, ub, "audio")

(***************************************************************************)
(* write_index (avi-utils.c), from sections 4.5 and 6 of the               *)
(* specification: "idx1", the byte length count * 16, then 16 bytes per    *)
(* entry: tag, flags, offset from the start of the movi data, size.        *)
(***************************************************************************)
IndexEntryBytes(e, offset) ==
    (IF IsAudioEntry(e) THEN Tag01wb ELSE Tag00dc)
    \o Bytes4(IF IsAudioEntry(e) THEN 16 ELSE 0)
    \o Bytes4(offset)
    \o Bytes4(EntrySize(e))

\* The bytes of entries lo..hi, the first at offset base, and the offset
\* after the last; halved so that the evaluation stays shallow.
RECURSIVE IndexRange(_, _, _, _)
IndexRange(entries, lo, hi, base) ==
    IF lo > hi THEN [bytes |-> <<>>, next |-> base]
    ELSE IF lo = hi
    THEN [bytes |-> IndexEntryBytes(entries[lo], base),
          next |-> base + EntrySize(entries[lo]) + 8]
    ELSE LET mid == (lo + hi) \div 2
             l == IndexRange(entries, lo, mid, base)
             r == IndexRange(entries, mid + 1, hi, l.next)
         IN  [bytes |-> l.bytes \o r.bytes, next |-> r.next]

IndexBytes(count, entries) ==
    TagIdx1 \o Bytes4(count * 16) \o IndexRange(entries, 1, count, 4).bytes

(***************************************************************************)
(* gwavi_close.  Steps: 1 ftell, 2 fseek(marker), 3 write_int, 4 fseek(t), *)
(* 5 write_index, 6 ftell, 7 fseek(12), 8 write_avi_header_chunk,          *)
(* 9 fseek(t), 10 ftell, 11 fseek(4), 12 write_int, 13 fseek(t),           *)
(* 14 fclose.  Every failing step leaves through return -1.                *)
(***************************************************************************)
CloseSteps == 14

\* A movi list size that counts its own four size bytes.
MoviSizeWithSizeField(t, marker) == t - marker

\* The value patched into the movi list size: (int)(t - gwavi->marker - 4).
MoviSize(t, marker) == t - marker - 4

\* A RIFF size that leaves out the "RIFF" tag only.
RiffSizeLessTag(t) == t - 4

\* The value patched into the RIFF size: (int)(t - 8).
RiffSize(t) == t - 8

\* A frame count taken from the chunk counter, audio chunks included.
FinalFramesAllChunks(g) == g.offset_count

\* avi_header.number_of_frames as close sets it.
FinalFrames(g) == g.stream_header_v.data_length

\* An index buffer released before write_index has used it.
OffsetsMemFreedBeforeIndex(mem, fail) ==
    IF Reached(4, fail) /\ mem = "live" THEN "freed" ELSE mem

\* free(gwavi->offsets): reached once write_index returned success.
OffsetsMemAfterClose(mem, fail) ==
    IF Reached(5, fail) /\ mem = "live" THEN "freed" ELSE mem

\* fclose(gwavi->out) is the fourteenth step; the stream is closed by the
\* call whether or not it reports success.
SinkAfterClose(fail) == IF Reached(13, fail) THEN "closed" ELSE "open"

\* free(gwavi): the statement after a successful fclose.
GwaviMemAfterClose(fail) == IF fail = 0 THEN "freed" ELSE "live"

CloseInputsOk(fail, ub) ==
    /\ fail \in 0..CloseSteps
    /\ ub \in {"crash", "continue"}
    /\ ub = "crash" => (offsetsMem = "null" /\ Reached(4, fail))
    /\ (offsetsMem = "null" /\ ub = "continue") => fail \in 1..5

gwavi_close(fail, ub) ==
    LET t1 == pos
        m == gwavi.marker
        f1 == WriteAt(file, m, Bytes4(MoviSize(t1, m)))
        index == IndexBytes(gwavi.offset_count, offsets)
        f2 == WriteAt(f1, t1, index)
        t2 == t1 + Len(index)
        g == [gwavi EXCEPT !.avi_header.number_of_frames = FinalFrames(gwavi)]
        hdr == HeaderChunkBytes(g)
        f3 == WriteAt(f2, HeaderOffset, hdr)
        t3 == t2
        f4 == WriteAt(f3, RiffSizeOffset, Bytes4(RiffSize(t3)))
        crash == ub = "crash"
    IN  /\ pc = "open"
        /\ CloseInputsOk(fail, ub)
        /\ lastOp' = [NoOp EXCEPT !.op = "close", !.fail = fail,
                                   !.after = lastOp.op]
        /\ UNCHANGED <<offsets, calls, params, wide>>
        /\ IF crash
           THEN /\ pc' = "crashed"
                /\ ret' = "crash"
                /\ file' = f1
                /\ pos' = t1
                /\ idxHanded' = [count |-> gwavi.offset_count,
                                 entries |-> <<>>]
                /\ patches' = [patches EXCEPT !.movi = @ + 1]
                /\ UNCHANGED <<gwavi, sink, fcloseCalls, gwaviMem,
                               offsetsMem>>
           ELSE /\ pc' = IF fail = 0 THEN "closed" ELSE "closeFailed"
                /\ ret' = IF fail = 0 THEN "0" ELSE "-1"
                /\ file' = IF Reached(12, fail) THEN f4
                           ELSE IF Reached(8, fail) THEN f3
                           ELSE IF Reached(5, fail) THEN f2
                           ELSE IF Reached(3, fail) THEN f1
                           ELSE file
                /\ pos' = IF Reached(13, fail) THEN t3
                          ELSE IF Reached(12, fail) THEN RiffSizeOffset + 4
                          ELSE IF Reached(11, fail) THEN RiffSizeOffset
                          ELSE IF Reached(9, fail) THEN t2
                          ELSE IF Reached(8, fail) THEN HeaderOffset + Len(hdr)
                          ELSE IF Reached(7, fail) THEN HeaderOffset
                          ELSE IF Reached(5, fail) THEN t2
                          ELSE IF Reached(4, fail) THEN t1
                          ELSE IF Reached(3, fail) THEN m + 4
                          ELSE IF Reached(2, fail) THEN m
                          ELSE t1
                /\ idxHanded' = IF Reached(4, fail)
                                THEN [count |-> gwavi.offset_count,
                                      entries |-> offsets]
                                ELSE idxHanded
                /\ gwavi' = IF Reached(5, fail) THEN g ELSE gwavi
                /\ offsetsMem' = OffsetsMemAfterClose(offsetsMem, fail)
                /\ sink' = SinkAfterClose(fail)
                /\ fcloseCalls' = IF Reached(13, fail) THEN fcloseCalls + 1
                                  ELSE fcloseCalls
                /\ gwaviMem' = GwaviMemAfterClose(fail)
                /\ patches' =
                     [riff |-> patches.riff
                        + (IF Reached(3, fail)
                           THEN Touch(m, 4, RiffSizeOffset) ELSE 0)
                        + (IF Reached(5, fail)
                           THEN Touch(t1, Len(index), RiffSizeOffset) ELSE 0)
                        + (IF Reached(8, fail)
                           THEN Touch(HeaderOffset, Len(hdr), RiffSizeOffset)
                           ELSE 0)
                        + (IF Reached(12, fail)
                           THEN Touch(RiffSizeOffset, 4, RiffSizeOffset)
                           ELSE 0),
                      movi |-> patches.movi
                        + (IF Reached(3, fail) THEN Touch(m, 4, m) ELSE 0)
                        + (IF Reached(5, fail)
                           THEN Touch(t1, Len(index), m) ELSE 0)
                        + (IF Reached(8, fail)
                           THEN Touch(HeaderOffset, Len(hdr), m) ELSE 0)
                        + (IF Reached(12, fail)
                           THEN Touch(RiffSizeOffset, 4, m) ELSE 0)]

(***************************************************************************)
(* The setters.                                                            *)
(***************************************************************************)
\* (int)(1000000.0 / fps): the double quotient, truncated toward zero.
DelayOfFps(fps) == CDiv(1000000, fps)

SetterEffect(g, opname, given) ==
    /\ pc = "open"
    /\ gwavi' = g
    /\ ret' = "void"
    /\ lastOp' = [NoOp EXCEPT !.op = opname]
    /\ params' = given
    /\ UNCHANGED <<pc, offsets, file, pos, sink, fcloseCalls, gwaviMem,
                   offsetsMem, calls, idxHanded, patches, wide>>

gwavi_set_framerate(fps) ==
    SetterEffect([gwavi EXCEPT !.stream_header_v.data_rate = fps,
                               !.avi_header.time_delay = DelayOfFps(fps)],
                 "set_framerate", [params EXCEPT !.fps = fps])

\* A gwavi_set_codec that copies the fourcc and keeps the compression code.
gwavi_set_codec_TagOnly(fourcc) ==
    SetterEffect([gwavi EXCEPT !.stream_header_v.codec = fourcc],
                 "set_codec", [params EXCEPT !.fourcc = fourcc])

gwavi_set_codec(fourcc) ==
    SetterEffect([gwavi EXCEPT
                    !.stream_header_v.codec = fourcc,
                    !.stream_format_v.compression_type =
                        CompressionType(fourcc)],
                 "set_codec", [params EXCEPT !.fourcc = fourcc])

\* A gwavi_set_size that leaves the video stream format as open set it.
gwavi_set_size_AviHeaderOnly(width, height) ==
    LET size == width * height * 3
    IN  SetterEffect([gwavi EXCEPT !.avi_header.data_rate = size,
                                   !.avi_header.width = width,
                                   !.avi_header.height = height,
                                   !.avi_header.buffer_size = size,
                                   !.stream_header_v.buffer_size = size],
                     "set_size",
                     [params EXCEPT !.width = width, !.height = height])

gwavi_set_size(width, height) ==
    LET size == width * height * 3
    IN  SetterEffect([gwavi EXCEPT !.avi_header.data_rate = size,
                                   !.avi_header.width = width,
                                   !.avi_header.height = height,
                                   !.avi_header.buffer_size = size,
                                   !.stream_header_v.buffer_size = size,
                                   !.stream_format_v.width = width,
                                   !.stream_format_v.height = height,
                                   !.stream_format_v.image_size = size],
                     "set_size",
                     [params EXCEPT !.width = width, !.height = height])

(***************************************************************************)
(* The callers the model runs: the parameters they pass.                   *)
(***************************************************************************)
NoAudio == [present |-> FALSE, channels |-> 0, bits |-> 0,
            samples_per_second |-> 0]
PcmAudio == [present |-> TRUE, channels |-> 2, bits |-> 16,
             samples_per_second |-> 8000]
Audios == {NoAudio, PcmAudio}
BaseVideo == [width |-> 320, height |-> 240, fourcc |-> FccXVID, fps |-> 25]
OtherVideo == [width |-> 640, height |-> 480, fourcc |-> FccMJPG, fps |-> 30]
Videos == {BaseVideo, OtherVideo}
Lens == 0..MaxLen

\* An append has returned failure.
Faulted == \E i \in 1..Len(calls) : calls[i].ret # "0"

(***************************************************************************)
(* Spec: a caller that opens, appends up to MaxChunks chunks, calls the    *)
(* setters at any point and closes; no I/O step fails.                     *)
(***************************************************************************)
DoOpen ==
    \E a \in Audios :
        gwavi_open(BaseVideo.width, BaseVideo.height, BaseVideo.fourcc,
                   BaseVideo.fps, a, 0)

DoAddFrame ==
    /\ gwavi.offset_count < MaxChunks
    /\ \E len \in Lens : gwavi_add_frame(len, 0, 0, FALSE, "continue")

DoAddAudio ==
    /\ gwavi.offset_count < MaxChunks
    /\ \E len \in Lens : gwavi_add_audio(len, 0, 0, FALSE, "continue")

DoSetFramerate == \E v \in Videos : gwavi_set_framerate(v.fps)

DoSetCodec == \E v \in Videos : gwavi_set_codec(v.fourcc)

DoSetSize == \E v \in Videos : gwavi_set_size(v.width, v.height)

DoClose == gwavi_close(0, "continue")

Next ==
    \/ DoOpen
    \/ DoAddFrame
    \/ DoAddAudio
    \/ DoSetFramerate
    \/ DoSetCodec
    \/ DoSetSize
    \/ DoClose

Spec == Init /\ [][Next]_vars

(***************************************************************************)
(* SpecIO: the same caller without the setters, with one failing step      *)
(* injected per run: into open, into one append, or into close.            *)
(***************************************************************************)
IOOpen ==
    \E a \in Audios, fail \in 0..OpenSteps :
        gwavi_open(BaseVideo.width, BaseVideo.height, BaseVideo.fourcc,
                   BaseVideo.fps, a, fail)

IOAddFrame ==
    /\ gwavi.offset_count < MaxChunks
    /\ \E len \in Lens, fail \in 0..AddSteps, short \in 0..MaxLen :
        /\ Faulted => fail = 0
        /\ gwavi_add_frame(len, fail, short, FALSE, "continue")

IOAddAudio ==
    /\ gwavi.offset_count < MaxChunks
    /\ \E len \in Lens, fail \in 0..AddSteps, short \in 0..MaxLen :
        /\ Faulted => fail = 0
        /\ gwavi_add_audio(len, fail, short, FALSE, "continue")

IOClose ==
    \E fail \in 0..CloseSteps :
        /\ Faulted => fail = 0
        /\ gwavi_close(fail, "continue")

NextIO == IOOpen \/ IOAddFrame \/ IOAddAudio \/ IOClose

SpecIO == Init /\ [][NextIO]_vars

(***************************************************************************)
(* SpecBulk: a caller that opens without audio and appends GrowFrom empty  *)
(* video frames, which brings the index buffer close to its first growth.  *)
(***************************************************************************)
GrowFrom == IndexChunk - 1 - GrowSlack
GrowTo == IndexChunk + GrowExtra
GrowLens == {0, MaxLen}

BulkOpen ==
    gwavi_open(BaseVideo.width, BaseVideo.height, BaseVideo.fourcc,
               BaseVideo.fps, NoAudio, 0)

BulkAddFrame ==
    /\ gwavi.offset_count < GrowFrom
    /\ gwavi_add_frame(0, 0, 0, FALSE, "continue")

NextBulk == BulkOpen \/ BulkAddFrame

SpecBulk == Init /\ [][NextBulk]_vars

\* n copies of the sequence s, halved so the evaluation stays shallow.
RECURSIVE Repeat(_, _)
Repeat(s, n) ==
    IF n = 0 THEN <<>>
    ELSE IF n = 1 THEN s
    ELSE LET h == Repeat(s, n \div 2)
         IN  h \o h \o (IF n % 2 = 1 THEN s ELSE <<>>)

\* The state SpecBulk ends in, in closed form: the writer after gwavi_open
\* and GrowFrom calls gwavi_add_frame(buffer, 0).
BulkHeaders ==
    OpenHeaders(BaseVideo.width, BaseVideo.height, BaseVideo.fourcc,
                BaseVideo.fps, NoAudio)

BulkDone ==
    LET skeleton == OpenBytes(BulkHeaders, 0)
    IN  /\ pc = "open"
        /\ gwavi = [BulkHeaders EXCEPT
                      !.marker = OpenMarker(BulkHeaders),
                      !.offsets_len = IndexChunk,
                      !.offsets_ptr = GrowFrom,
                      !.offset_count = GrowFrom,
                      !.stream_header_v.data_length = GrowFrom]
        /\ offsets = Repeat(<<VideoEntry(0, 0)>>, GrowFrom)
        /\ file = skeleton \o Repeat(Tag00dc \o Bytes4(0), GrowFrom)
        /\ pos = Len(skeleton) + 8 * GrowFrom
        /\ sink = "open"
        /\ fcloseCalls = 0
        /\ gwaviMem = "live"
        /\ offsetsMem = "live"
        /\ ret = "0"
        /\ lastOp = [NoOp EXCEPT !.op = "frame"]
        /\ calls = [i \in 1..GrowFrom |->
                      [op |-> "frame", len |-> 0, ret |-> "0",
                       at |-> Len(skeleton) + 8 * (i - 1)]]
        /\ idxHanded = [count |-> -1, entries |-> <<>>]
        /\ params = [width |-> BaseVideo.width, height |-> BaseVideo.height,
                     fourcc |-> BaseVideo.fourcc, fps |-> BaseVideo.fps,
                     audio |-> NoAudio]
        /\ patches = [riff |-> 1, movi |-> 1]
        /\ wide = NoWide

\* SpecBulk ends in the state BulkDone describes, and in no other.
BulkEndsInBulkDone ==
    (pc = "open" /\ gwavi.offset_count = GrowFrom) => BulkDone

(***************************************************************************)
(* SpecGrow: the caller of SpecBulk goes on, from the state SpecBulk ends  *)
(* in, to append video and audio chunks across the growth point of the     *)
(* index buffer, and closes; realloc may fail.                             *)
(***************************************************************************)
GrowAddFrame ==
    /\ gwavi.offset_count < GrowTo
    /\ \E len \in GrowLens, growFail \in BOOLEAN,
          ub \in {"crash", "continue"} :
         gwavi_add_frame(len, 0, 0, growFail, ub)

GrowAddAudio ==
    /\ gwavi.offset_count < GrowTo
    /\ \E len \in GrowLens, growFail \in BOOLEAN,
          ub \in {"crash", "continue"} :
         gwavi_add_audio(len, 0, 0, growFail, ub)

GrowClose ==
    \E fail \in {0, 5}, ub \in {"crash", "continue"} : gwavi_close(fail, ub)

NextGrow == GrowAddFrame \/ GrowAddAudio \/ GrowClose

SpecGrow == BulkDone /\ [][NextGrow]_vars

(***************************************************************************)
(* SpecWrap: the caller of SpecBulk appends video and audio chunks across  *)
(* the first and across the second growth point of the index buffer; every *)
(* realloc succeeds.  The runs start where SpecBulk ends and where the     *)
(* same caller is after 2 * IndexChunk - 1 - GrowSlack empty frames.       *)
(***************************************************************************)
\* The writer after gwavi_open (no audio) and n calls
\* gwavi_add_frame(buffer, 0), in closed form.
BulkState(n) ==
    LET skeleton == OpenBytes(BulkHeaders, 0)
    IN  /\ pc = "open"
        /\ gwavi = [BulkHeaders EXCEPT
                      !.marker = OpenMarker(BulkHeaders),
                      !.offsets_len = IndexChunk * (1 + n \div IndexChunk),
                      !.offsets_ptr = n,
                      !.offset_count = n,
                      !.stream_header_v.data_length = n]
        /\ offsets = Repeat(<<VideoEntry(0, 0)>>, n)
        /\ file = skeleton \o Repeat(Tag00dc \o Bytes4(0), n)
        /\ pos = Len(skeleton) + 8 * n
        /\ sink = "open"
        /\ fcloseCalls = 0
        /\ gwaviMem = "live"
        /\ offsetsMem = "live"
        /\ ret = "0"
        /\ lastOp = [NoOp EXCEPT !.op = "frame",
                                 !.grow = (n % IndexChunk = 0)]
        /\ calls = [i \in 1..n |->
                      [op |-> "frame", len |-> 0, ret |-> "0",
                       at |-> Len(skeleton) + 8 * (i - 1)]]
        /\ idxHanded = [count |-> -1, entries |-> <<>>]
        /\ params = [width |-> BaseVideo.width, height |-> BaseVideo.height,
                     fourcc |-> BaseVideo.fourcc, fps |-> BaseVideo.fps,
                     audio |-> NoAudio]
        /\ patches = [riff |-> 1, movi |-> 1]
        /\ wide = NoWide

WrapFrom == 2 * IndexChunk - 1 - GrowSlack

\* SpecBulkFar: the caller of SpecBulk goes on appending empty frames up to
\* WrapFrom; every state on the way is the closed form of its count.
BulkFarAddFrame ==
    /\ gwavi.offset_count < WrapFrom
    /\ gwavi_add_frame(0, 0, 0, FALSE, "continue")

SpecBulkFar == BulkDone /\ [][BulkFarAddFrame]_vars

BulkFarIsBulkState == BulkState(gwavi.offset_count)

\* Appends are made from GrowSlack + 1 before a multiple of IndexChunk to
\* GrowExtra after it.
NearGrowth(count) ==
    \/ count % IndexChunk >= IndexChunk - 1 - GrowSlack
    \/ count % IndexChunk < GrowExtra

WrapAddFrame ==
    /\ NearGrowth(gwavi.offset_count)
    /\ \E len \in GrowLens : gwavi_add_frame(len, 0, 0, FALSE, "continue")

WrapAddAudio ==
    /\ NearGrowth(gwavi.offset_count)
    /\ \E len \in GrowLens : gwavi_add_audio(len, 0, 0, FALSE, "continue")

NextWrap == WrapAddFrame \/ WrapAddAudio

SpecWrap == (BulkDone \/ BulkState(WrapFrom)) /\ [][NextWrap]_vars

(***************************************************************************)
(* SpecWide: the index entry that gwavi_add_frame and gwavi_add_audio      *)
(* compute from a size_t length of any width.  A length is the pair        *)
(* (hi, lo) of value hi * 2^31 + lo with 0 <= lo < 2^31, so that bit 31    *)
(* and the bits above it are hi.  The caller opens the writer and makes    *)
(* one append; only the computation of the entry is run, the chunk of that *)
(* many bytes is not written.                                              *)
(***************************************************************************)
Max31 == -(MinInt32 + 1)

\* maxi_pad of a wide length: len % 4, then 4 - maxi_pad when positive.
WidePad(len) == LET m == len.lo % 4 IN IF m > 0 THEN 4 - m ELSE m

\* len + maxi_pad in size_t.
WideAdd(len, pad) ==
    IF len.lo > Max31 - pad
    THEN [hi |-> len.hi + 1, lo |-> len.lo - (Max31 - pad) - 1]
    ELSE [hi |-> len.hi, lo |-> len.lo + pad]

\* v | 0x80000000 in size_t: bit 31 set, the other bits kept.
WideOrBit31(v) == [v EXCEPT !.hi = IF @ % 2 = 1 THEN @ ELSE @ + 1]

\* (int) of a size_t value: its low 32 bits as a two's complement int.
ToInt32(v) == IF v.hi % 2 = 1 THEN v.lo + MinInt32 ELSE v.lo

\* gwavi->offsets[...] = (int)(len + maxi_pad).
WideVideoEntry(len) == ToInt32(WideAdd(len, WidePad(len)))

\* gwavi->offsets[...] = (int)((len + maxi_pad) | 0x80000000).
WideAudioEntry(len) == ToInt32(WideOrBit31(WideAdd(len, WidePad(len))))

\* The lengths tried: the first and the last ones of each 2^31 range.
WideLens ==
    { [hi |-> h, lo |-> l] :
        h \in 0..MaxWide,
        l \in (0..(4 * MaxLen)) \cup {Max31 - k : k \in 0..(4 * MaxLen)} }

WideEffect(opname, len, entry) ==
    /\ pc = "open"
    /\ wide.op = "none"
    /\ wide' = [op |-> opname, len |-> len, entry |-> entry]
    /\ UNCHANGED <<pc, gwavi, offsets, file, pos, sink, fcloseCalls,
                   gwaviMem, offsetsMem, ret, lastOp, calls, idxHanded,
                   params, patches>>

WideAddFrame ==
    \E len \in WideLens : WideEffect("frame", len, WideVideoEntry(len))

WideAddAudio ==
    \E len \in WideLens : WideEffect("audio", len, WideAudioEntry(len))

WideOpen ==
    \E a \in Audios :
        gwavi_open(BaseVideo.width, BaseVideo.height, BaseVideo.fourcc,
                   BaseVideo.fps, a, 0)

NextWide == WideOpen \/ WideAddFrame \/ WideAddAudio

SpecWide == Init /\ [][NextWide]_vars

\* For the lengths of the byte-level model both computations agree.
WideAgreesWithNarrow ==
    (wide.op # "none" /\ wide.len.hi = 0 /\ wide.len.lo <= 4 * MaxLen) =>
        wide.entry = (IF wide.op = "frame"
                      THEN VideoEntry(wide.len.lo, MaxiPad(wide.len.lo))
                      ELSE AudioEntry(wide.len.lo, MaxiPad(wide.len.lo)))

(***************************************************************************)
(* SpecSet: a caller that opens with any of the parameter combinations and *)
(* then calls the setters with any of them, before any append.             *)
(***************************************************************************)
H264 == <<72, 50, 54, 52>>
SmallVideo == [width |-> 16, height |-> 8, fourcc |-> H264, fps |-> 7]
SetVideos == Videos \cup {SmallVideo}

SetOpen ==
    \E size \in SetVideos, codec \in SetVideos, rate \in SetVideos,
       a \in Audios :
        gwavi_open(size.width, size.height, codec.fourcc, rate.fps, a, 0)

SetFramerate == \E v \in SetVideos : gwavi_set_framerate(v.fps)

SetCodec == \E v \in SetVideos : gwavi_set_codec(v.fourcc)

SetSize == \E v \in SetVideos : gwavi_set_size(v.width, v.height)

NextSet == SetOpen \/ SetFramerate \/ SetCodec \/ SetSize

SpecSet == Init /\ [][NextSet]_vars

(***************************************************************************)
(* Properties.                                                             *)
(***************************************************************************)
\* The sum of the numbers s[lo..hi], halved so the evaluation stays shallow.
RECURSIVE SumRange(_, _, _)
SumRange(s, lo, hi) ==
    IF lo > hi THEN 0
    ELSE IF lo = hi THEN s[lo]
    ELSE LET mid == (lo + hi) \div 2
         IN  SumRange(s, lo, mid) + SumRange(s, mid + 1, hi)

SumSeq(s) == SumRange(s, 1, Len(s))

\* The pad of a payload of L bytes, as the specification states it.
PadOf(L) == (4 - (L % 4)) % 4

\* The bytes one append adds to the file: 8 + len + pad.
SpanOf(c) == 8 + c.len + PadOf(c.len)

\* The appends made that were gwavi_add_frame / gwavi_add_audio calls.
FrameCalls == {i \in 1..Len(calls) : calls[i].op = "frame"}
AudioCalls == {i \in 1..Len(calls) : calls[i].op = "audio"}

\* Where the index chunk starts in a closed file: T of gwavi_close.
IndexStart == Len(file) - 8 - 16 * Len(calls)

\* C1: after open, any successful appends and setter calls, and a
\* successful close, the RIFF size field at byte offset 4 of the file equals
\* the length of the file minus 8, the index chunk included.
C1_RiffSizeIsFileLengthMinus8 ==
    pc = "closed" =>
        /\ ReadInt(file, 4) = Len(file) - 8
        /\ ReadBytes(file, IndexStart, 4) = TagIdx1
        /\ ReadBytes(file, 0, 4) = TagRIFF

C1_Witness ==
    /\ pc = "closed"
    /\ ret = "0"
    /\ Len(calls) = 2
    /\ calls[1].op = "audio" /\ calls[1].len = 3
    /\ calls[2].op = "frame" /\ calls[2].len = 1
    /\ gwavi.avi_header.width = OtherVideo.width
    /\ ReadInt(file, 4) = Len(file) - 8

\* C2: after a successful close the movi list size placeholder at marker
\* holds T - marker - 4, T the position before the index is written: the
\* "movi" tag plus 8 + len + pad for every chunk appended, without the idx1
\* index; for open followed by close it covers no chunk payload.
C2_MoviSizeCoversTagAndChunks ==
    pc = "closed" =>
        /\ ReadInt(file, gwavi.marker) = IndexStart - gwavi.marker - 4
        /\ ReadInt(file, gwavi.marker)
             = 4 + SumSeq([i \in 1..Len(calls) |-> SpanOf(calls[i])])
        /\ ReadBytes(file, gwavi.marker + 4, 4) = TagMovi
        /\ ReadBytes(file, gwavi.marker - 4, 4) = TagLIST
        /\ Len(calls) = 0 => ReadInt(file, gwavi.marker) = 4

C2_Witness ==
    /\ pc = "closed"
    /\ Len(calls) = 2
    /\ calls[1].op = "frame" /\ calls[1].len = 2
    /\ calls[2].op = "audio" /\ calls[2].len = 3
    /\ ReadInt(file, gwavi.marker) = 4 + 12 + 12

C2_WitnessEmpty ==
    /\ pc = "closed"
    /\ Len(calls) = 0
    /\ ReadInt(file, gwavi.marker) = 4

\* Where the chunk data ends: the file position while the writer is open,
\* the start of the index once it is closed.
ChunkEnd == IF pc = "closed" THEN IndexStart ELSE pos

\* The i-th append wrote its tag, the length field L + pad, the L payload
\* bytes and pad zero bytes, the file grew by 8 + the length field, and the
\* chunk starts a multiple of 4 bytes after the first chunk.
ChunkLaidOut(i) ==
    LET c == calls[i]
        L == c.len
        P == PadOf(L)
        a == c.at
        end == IF i < Len(calls) THEN calls[i + 1].at ELSE ChunkEnd
    IN  /\ ReadBytes(file, a, 4) = (IF c.op = "frame" THEN Tag00dc ELSE Tag01wb)
        /\ ReadInt(file, a + 4) = L + P
        /\ ReadBytes(file, a + 8, L) = Buffer(L)
        /\ ReadBytes(file, a + 8 + L, P) = Zeros(P)
        /\ end - a = 8 + ReadInt(file, a + 4)
        /\ (a - calls[1].at) % 4 = 0

\* C3 as stated: every successful append lays its chunk out as above, and
\* for L = 0 the recorded index entry is 0, for gwavi_add_frame and for
\* gwavi_add_audio alike.
C3_ChunkLayoutEntryZero ==
    pc \in {"open", "closed"} =>
        \A i \in 1..Len(calls) :
            calls[i].ret = "0" =>
                /\ ChunkLaidOut(i)
                /\ calls[i].len = 0 => offsets[i] = 0

\* C3 as amended: every successful append lays its chunk out as above; for
\* L = 0 the payload and the pad are empty and the size recorded in the
\* index entry is 0: the entry of gwavi_add_frame is 0, the entry of
\* gwavi_add_audio is 0x80000000 (the audio bit alone).
C3_ChunkLayoutSizeZero ==
    pc \in {"open", "closed"} =>
        \A i \in 1..Len(calls) :
            calls[i].ret = "0" =>
                /\ ChunkLaidOut(i)
                /\ calls[i].len = 0 =>
                     /\ EntrySize(offsets[i]) = 0
                     /\ calls[i].op = "frame" => offsets[i] = 0
                     /\ calls[i].op = "audio" => offsets[i] = MinInt32

C3_Witness ==
    /\ pc = "open"
    /\ Len(calls) = 2
    /\ calls[1].op = "audio" /\ calls[1].len = 0 /\ calls[1].ret = "0"
    /\ calls[2].op = "frame" /\ calls[2].len = 3 /\ calls[2].ret = "0"
    /\ offsets[1] = MinInt32
    /\ pos = calls[1].at + 8 + 12
    /\ ReadInt(file, calls[2].at + 4) = 4

\* Entry e records the append c: bit 31 set exactly for gwavi_add_audio, the
\* low 31 bits len + pad.
EntryRecords(e, c) ==
    /\ IsAudioEntry(e) <=> c.op = "audio"
    /\ EntrySize(e) = c.len + PadOf(c.len)

\* C4: for any interleaving of gwavi_add_frame and gwavi_add_audio calls,
\* the index handed to the index writer at close has exactly chunkCount
\* entries, in the order of the calls; entry i has bit 31 set iff the i-th
\* call was gwavi_add_audio, and its low 31 bits are that call's len + pad.
C4_IndexHandedMatchesCalls ==
    /\ pc = "open" =>
         /\ gwavi.offset_count = Len(calls)
         /\ Len(offsets) = Len(calls)
         /\ \A i \in 1..Len(calls) : EntryRecords(offsets[i], calls[i])
    /\ idxHanded.count >= 0 =>
         /\ idxHanded.count = Len(calls)
         /\ Len(idxHanded.entries) = idxHanded.count
         /\ \A i \in 1..Len(calls) :
                EntryRecords(idxHanded.entries[i], calls[i])

C4_Witness ==
    /\ pc = "closed"
    /\ idxHanded.count = 2
    /\ calls[1].op = "audio" /\ calls[1].len = 1
    /\ calls[2].op = "frame" /\ calls[2].len = 2
    /\ idxHanded.entries = <<MinInt32 + 4, 4>>

\* C5: after N gwavi_add_frame calls and M gwavi_add_audio calls in any
\* interleaving, the number_of_frames that gwavi_close writes into the file
\* is N; it is 0 from open until close, and gwavi_add_audio and the setters
\* never change the video frame count.
C5_FrameCountIsVideoCalls ==
    /\ pc = "open" =>
         /\ gwavi.avi_header.number_of_frames = 0
         /\ ReadInt(file, FrameCountOffset) = 0
         /\ gwavi.stream_header_v.data_length = Cardinality(FrameCalls)
    /\ pc = "closed" =>
         /\ ReadInt(file, FrameCountOffset) = Cardinality(FrameCalls)
         /\ gwavi.avi_header.number_of_frames = Cardinality(FrameCalls)

C5_Witness ==
    /\ pc = "closed"
    /\ Cardinality(FrameCalls) = 1
    /\ Cardinality(AudioCalls) = 1
    /\ gwavi.stream_header_v.data_rate = OtherVideo.fps
    /\ ReadInt(file, FrameCountOffset) = 1

\* The bytes (len + pad) of the gwavi_add_audio calls that returned success.
AudioBytesWritten ==
    SumSeq([i \in 1..Len(calls) |->
              IF calls[i].op = "audio" /\ calls[i].ret = "0"
              THEN calls[i].len + PadOf(calls[i].len) ELSE 0])

\* The sum of the low 31 bits of the audio-tagged index entries.
AudioBytesIndexed ==
    SumSeq([i \in 1..Len(offsets) |->
              IF IsAudioEntry(offsets[i]) THEN EntrySize(offsets[i]) ELSE 0])

\* C6: between open and close the audio stream header's data_length is the
\* sum of len + pad over the gwavi_add_audio calls that returned success;
\* gwavi_add_frame never changes it; while no append has failed it equals
\* the sum of the low 31 bits of the audio-tagged index entries.
C6_AudioLengthIsSuccessfulAudioBytes ==
    pc = "open" =>
        /\ gwavi.stream_header_a.data_length = AudioBytesWritten
        /\ ~Faulted => gwavi.stream_header_a.data_length = AudioBytesIndexed

C6_Witness ==
    /\ pc = "open"
    /\ Len(calls) = 2
    /\ calls[1].op = "audio" /\ calls[1].len = 3 /\ calls[1].ret = "0"
    /\ calls[2].op = "audio" /\ calls[2].len = 2 /\ calls[2].ret = "-1"
    /\ gwavi.stream_header_a.data_length = 4
    /\ AudioBytesIndexed = 8

\* C7: if any ftell, fseek, write or fclose step of gwavi_close fails,
\* gwavi_close returns failure and the writer structure, the index buffer
\* and the open sink are still released.
C7_FailedCloseReleasesAll ==
    (lastOp.op = "close" /\ lastOp.fail # 0) =>
        /\ ret = "-1"
        /\ gwaviMem = "freed"
        /\ offsetsMem = "freed"
        /\ sink = "closed"

\* C8: the sink opened by gwavi_open is closed exactly once, at close time;
\* a sink that was opened remains unclosed only when open succeeded and
\* close was never called, not after a failed open or a failed close.
C8_SinkClosedExactlyOnce ==
    /\ fcloseCalls <= 1
    /\ sink = "closed" => (fcloseCalls = 1 /\ lastOp.op = "close")
    /\ sink = "open" => pc = "open"

\* C9: if any step of gwavi_open fails, gwavi_open returns NULL; a writer is
\* returned only when every step succeeded, with marker recorded, index
\* capacity 1024 and zero entries.
C9_OpenAllOrNothing ==
    lastOp.op = "open" =>
        /\ lastOp.fail # 0 => (ret = "NULL" /\ pc = "openFailed")
        /\ ret = "gwavi" =>
             /\ lastOp.fail = 0
             /\ pc = "open"
             /\ sink = "open" /\ gwaviMem = "live" /\ offsetsMem = "live"
             /\ gwavi.marker = Len(file) - 8
             /\ ReadBytes(file, gwavi.marker - 4, 12)
                  = TagLIST \o Zero4 \o TagMovi
             /\ gwavi.offsets_len = 1024
             /\ gwavi.offsets_ptr = 0
             /\ gwavi.offset_count = 0
             /\ offsets = <<>>

C9_Witness ==
    /\ lastOp.op = "open"
    /\ lastOp.fail = OpenSteps
    /\ ret = "NULL"
    /\ pc = "openFailed"
    /\ Len(file) = 12 + Len(HeaderChunkBytes(gwavi)) + 12

\* C10: a failure to grow the index buffer during gwavi_add_frame or
\* gwavi_add_audio is detected where it occurs and surfaced as a failed
\* result of that call, before any index entry is stored through the buffer.
C10_GrowFailureSurfaced ==
    lastOp.growFailed =>
        /\ ret = "-1"
        /\ pc = "open"
        /\ gwavi.offsets_ptr = Len(calls) - 1

\* The header model that gwavi_open builds from the parameters given last,
\* with the counters of the appends made so far.
HeadersOfParams ==
    LET h == OpenHeaders(params.width, params.height, params.fourcc,
                         params.fps, params.audio)
    IN  [h EXCEPT !.avi_header.number_of_frames = Cardinality(FrameCalls),
                  !.stream_header_v.data_length = Cardinality(FrameCalls),
                  !.stream_header_a.data_length = AudioBytesWritten]

\* C11: a setter called after frames have been added and before gwavi_close
\* takes effect in the final file: the header chunk that close rewrites at
\* byte offset 12 is the serialisation of the header model in memory at
\* close time, which carries the values set last (width, height, frame
\* delay, rate, codec), not the values given to open.
C11_ClosedHeaderCarriesLastSet ==
    pc = "closed" =>
        /\ ReadBytes(file, HeaderOffset, Len(HeaderChunkBytes(gwavi)))
             = HeaderChunkBytes(gwavi)
        /\ HeaderChunkBytes(gwavi) = HeaderChunkBytes(HeadersOfParams)
        /\ ReadInt(file, HeaderOffset + 8) = 1000000 \div params.fps
        /\ ReadInt(file, HeaderOffset + 8 + 32) = params.width
        /\ ReadInt(file, HeaderOffset + 8 + 36) = params.height
        /\ ReadBytes(file, HeaderOffset + 64 + 12 + 8 + 4, 4) = params.fourcc
        /\ ReadInt(file, HeaderOffset + 64 + 12 + 8 + 24) = params.fps
        /\ ReadInt(file, HeaderOffset + 64 + 12 + 64 + 8 + 4) = params.width
        /\ ReadInt(file, HeaderOffset + 64 + 12 + 64 + 8 + 8) = params.height
        /\ ReadInt(file, HeaderOffset + 64 + 12 + 64 + 8 + 20)
             = params.width * params.height * 3

C11_Witness ==
    /\ pc = "closed"
    /\ lastOp.after = "set_size"
    /\ Len(calls) = 2
    /\ calls[1].op = "frame" /\ calls[2].op = "frame"
    /\ params.width = OtherVideo.width
    /\ params.fps = OtherVideo.fps
    /\ params.fourcc = OtherVideo.fourcc
    /\ ReadInt(file, HeaderOffset + 8 + 32) = OtherVideo.width
    /\ ReadInt(file, HeaderOffset + 8) = 33333
    /\ ReadInt(file, FrameCountOffset) = 2

\* What one call of gwavi_close, failing at step k (0: at none), has done:
\* each step has acted exactly when the steps before it succeeded.
CloseStepsInOrder ==
    (pc = "open" /\ lastOp'.op = "close" /\ pc' # "crashed") =>
        LET k == lastOp'.fail
            T == pos
            m == gwavi.marker
            n == gwavi.offset_count
            N == gwavi.stream_header_v.data_length
            moviDone == Reached(3, k)
            indexDone == Reached(5, k)
            headerDone == Reached(8, k)
            riffDone == Reached(12, k)
            fcloseDone == Reached(13, k)
        IN  /\ ReadInt(file', m) = (IF moviDone THEN T - m - 4 ELSE 0)
            /\ Len(file') = (IF indexDone THEN T + 8 + 16 * n ELSE Len(file))
            /\ indexDone =>
                 SubSeq(file', T + 1, Len(file')) = IndexBytes(n, offsets)
            /\ offsetsMem' = (IF indexDone THEN "freed" ELSE "live")
            /\ gwavi'.avi_header.number_of_frames = (IF indexDone THEN N ELSE 0)
            /\ ReadInt(file', FrameCountOffset) = (IF headerDone THEN N ELSE 0)
            /\ ReadInt(file', RiffSizeOffset)
                 = (IF riffDone THEN Len(file') - 8 ELSE 0)
            /\ sink' = (IF fcloseDone THEN "closed" ELSE "open")
            /\ gwaviMem' = (IF k = 0 THEN "freed" ELSE "live")
            /\ SubSeq(file', m + 5, T) = SubSeq(file, m + 5, T)
            /\ (Reached(9, k) /\ ~Reached(11, k)) => pos' = Len(file')
            /\ fcloseDone => pos' = Len(file')

\* C12: gwavi_close performs its steps strictly in this order: patch the
\* movi list size at marker, write the index at the position T where the
\* last chunk ended, release the index buffer, set number_of_frames, rewrite
\* the header at offset 12, patch the RIFF size at offset 4, close the sink,
\* release the writer; each seek-back patch restores the file position, so
\* the index follows the last chunk directly and nothing written later
\* overwrites chunk data or the index.
C12_CloseStepsInOrder == [][CloseStepsInOrder]_vars

C12_Witness ==
    /\ pc = "closeFailed"
    /\ lastOp.op = "close"
    /\ lastOp.fail = 9
    /\ Len(calls) = 2
    /\ Cardinality(FrameCalls) = 1
    /\ ReadInt(file, gwavi.marker) = IndexStart - gwavi.marker - 4
    /\ ReadBytes(file, IndexStart, 4) = TagIdx1
    /\ pos = HeaderOffset + Len(HeaderChunkBytes(gwavi))
    /\ offsetsMem = "freed"
    /\ ReadInt(file, FrameCountOffset) = 1
    /\ ReadInt(file, RiffSizeOffset) = 0
    /\ sink = "open"
    /\ gwaviMem = "live"

\* C13: the movi list size placeholder (at marker) and the RIFF size
\* placeholder (at offset 4) are written as 0 by open, are written by no
\* gwavi_add_frame, gwavi_add_audio or setter call, and are each written
\* exactly once during a successful close; the header rewrite at offset 12
\* covers only the bytes the header occupied at open and overwrites neither
\* placeholder nor any chunk data.
C13_PlaceholdersPatchedOnceAtClose ==
    /\ pc = "open" =>
         /\ ReadInt(file, RiffSizeOffset) = 0
         /\ ReadInt(file, gwavi.marker) = 0
         /\ patches = [riff |-> 1, movi |-> 1]
    /\ pc = "closed" =>
         /\ patches = [riff |-> 2, movi |-> 2]
         /\ HeaderOffset + Len(HeaderChunkBytes(gwavi)) = gwavi.marker - 4
         /\ ReadBytes(file, 0, 4) = TagRIFF
         /\ ReadInt(file, RiffSizeOffset) = Len(file) - 8
         /\ ReadBytes(file, 8, 4) = TagAVI
         /\ ReadBytes(file, gwavi.marker - 4, 4) = TagLIST
         /\ ReadInt(file, gwavi.marker) = IndexStart - gwavi.marker - 4
         /\ ReadBytes(file, gwavi.marker + 4, 4) = TagMovi
         /\ \A i \in 1..Len(calls) : ChunkLaidOut(i)

C13_Witness ==
    /\ pc = "closed"
    /\ patches = [riff |-> 2, movi |-> 2]
    /\ params.audio.present
    /\ params.width = OtherVideo.width
    /\ params.fourcc = OtherVideo.fourcc
    /\ Len(calls) = 2
    /\ calls[1].op = "frame" /\ calls[1].len = 3
    /\ calls[2].op = "audio" /\ calls[2].len = 2
    /\ calls[1].at = gwavi.marker + 8
    /\ ReadBytes(file, gwavi.marker + 8, 4) = Tag00dc

\* C14: in every reachable state between a successful open and close the
\* number of stored index entries (offsets_ptr) equals the chunk counter
\* (offset_count), also after an append that returned failure because a
\* write step failed: both are advanced before any byte of the chunk is
\* written and are not rolled back.
C14_StoredEntriesEqualChunkCount ==
    pc = "open" =>
        /\ gwavi.offsets_ptr = gwavi.offset_count
        /\ Len(offsets) = gwavi.offsets_ptr
        /\ gwavi.offset_count = Len(calls)

C14_Witness ==
    /\ pc = "open"
    /\ Len(calls) = 2
    /\ calls[1].op = "frame" /\ calls[1].ret = "0"
    /\ calls[2].op = "audio" /\ calls[2].ret = "-1"
    /\ lastOp.fail = 1
    /\ pos = calls[2].at
    /\ gwavi.offsets_ptr = 2
    /\ gwavi.offset_count = 2

\* One append, seen as a step: the entry goes to the position offsets_ptr
\* had before the call, under the capacity the call leaves.
StoreBelowCapacity ==
    /\ gwavi'.offsets_len >= gwavi.offsets_len
    /\ (pc = "open" /\ lastOp'.op \in {"frame", "audio"}) =>
         /\ offsetsMem' = "live"
         /\ gwavi.offsets_ptr < gwavi'.offsets_len
         /\ gwavi'.offsets_ptr = gwavi.offsets_ptr + 1
         /\ Len(offsets') = gwavi'.offsets_ptr
         /\ Len(offsets') <= gwavi'.offsets_len

\* C15: provided buffer growth succeeds, every index entry stored by
\* gwavi_add_frame or gwavi_add_audio is written at a position strictly
\* below the index capacity of that moment (offsets_ptr < offsets_len), at
\* the 1024th and 1025th append and at the next multiple of 1024 alike, and
\* the capacity never shrinks.
C15_StoreBelowCapacity == [][StoreBelowCapacity]_vars

C15_Witness ==
    /\ pc = "open"
    /\ offsetsMem = "live"
    /\ gwavi.offset_count = 2 * IndexChunk + 1
    /\ gwavi.offsets_ptr = 2 * IndexChunk + 1
    /\ gwavi.offsets_len = 3 * IndexChunk
    /\ Len(offsets) = 2 * IndexChunk + 1
    /\ offsets[2 * IndexChunk] = AudioEntry(MaxLen, MaxiPad(MaxLen))
    /\ offsets[2 * IndexChunk + 1] = VideoEntry(MaxLen, MaxiPad(MaxLen))

\* n / 1024 rounded up.
CeilChunks(n) == (n + IndexChunk - 1) \div IndexChunk

\* C18 as stated: the index buffer starts with capacity 1024 and grows by
\* 1024 entries when, and only when, the next index write would exceed the
\* capacity: after n appends the capacity is 1024 * max(1, ceil(n / 1024)),
\* so the 1024th append does not trigger a growth and the 1025th does.
C18_CapacityGrowsWhenExceeded ==
    pc = "open" =>
        LET n == gwavi.offset_count
        IN  /\ gwavi.offsets_len
                 = IndexChunk * (IF CeilChunks(n) > 1 THEN CeilChunks(n) ELSE 1)
            /\ lastOp.op \in {"frame", "audio"} =>
                 (lastOp.grow <=> (n > 1 /\ n % IndexChunk = 1))

\* C18 as amended: the index buffer starts with capacity 1024 and grows by
\* exactly 1024 entries in the append that brings the chunk counter to the
\* capacity, one entry before the buffer would be full: after n appends the
\* capacity is 1024 * (1 + floor(n / 1024)), so the 1024th append triggers
\* a growth and the 1025th does not.
C18_CapacityGrowsWhenReached ==
    pc = "open" =>
        LET n == gwavi.offset_count
        IN  /\ gwavi.offsets_len = IndexChunk * (1 + n \div IndexChunk)
            /\ lastOp.op \in {"frame", "audio"} =>
                 (lastOp.grow <=> n % IndexChunk = 0)

C18_Witness ==
    /\ pc = "open"
    /\ gwavi.offset_count = IndexChunk
    /\ lastOp.op = "audio"
    /\ lastOp.grow
    /\ gwavi.offsets_len = 2 * IndexChunk
    /\ Len(offsets) = IndexChunk

\* C16: for every length len >= 0 that gwavi_add_frame accepts, the index
\* entry it stores equals len + pad with bit 31 clear, so that a video chunk
\* is never recorded as an audio chunk; for gwavi_add_audio the low 31 bits
\* of the entry equal len + pad; for every len of the size_t parameter,
\* len + pad >= 2^31 included.
C16_EntryKeepsKindAndLength ==
    LET sum == WideAdd(wide.len, WidePad(wide.len))
    IN  /\ wide.op = "frame" =>
             /\ ~IsAudioEntry(wide.entry)
             /\ sum = [hi |-> 0, lo |-> wide.entry]
        /\ wide.op = "audio" =>
             /\ IsAudioEntry(wide.entry)
             /\ sum = [hi |-> 0, lo |-> EntrySize(wide.entry)]

\* The writer structure gwavi_open returns for the parameters p.
OpenedWith(p) ==
    LET h == OpenHeaders(p.width, p.height, p.fourcc, p.fps, p.audio)
    IN  [h EXCEPT !.marker = OpenMarker(h),
                  !.offsets_len = IndexChunk,
                  !.offsets_ptr = 0]

\* One call of gwavi_open or of a setter, seen as a step.
SetterAsOpen ==
    /\ (lastOp'.op = "open" /\ ret' = "gwavi") =>
         /\ gwavi' = OpenedWith(params')
         /\ offsets' = <<>>
    /\ (pc = "open" /\ calls = <<>>
        /\ lastOp'.op \in {"set_framerate", "set_codec", "set_size"}) =>
         /\ gwavi' = OpenedWith(params')
         /\ offsets' = offsets
         /\ file' = file
         /\ pos' = pos
         /\ patches' = patches
         /\ sink' = sink

\* C17: each setter recomputes every header field that open derives from
\* the same parameter and changes nothing else: the writer state (header
\* model, chunk counter, index entries, marker) after open(w, h, fourcc,
\* fps, audio) and gwavi_set_size(w', h') is the state after open(w', h',
\* fourcc, fps, audio), and likewise for gwavi_set_framerate(fps') and
\* gwavi_set_codec(fourcc'); the setters write nothing to the sink.
C17_SetterEqualsOpenWithNewValue == [][SetterAsOpen]_vars

C17_Witness ==
    /\ pc = "open"
    /\ lastOp.op = "set_framerate"
    /\ params.fps = SmallVideo.fps
    /\ params.width = OtherVideo.width
    /\ params.fourcc = H264
    /\ params.audio.present
    /\ gwavi.avi_header.time_delay = 142857
    /\ gwavi.stream_format_v.image_size = 640 * 480 * 3
    /\ gwavi = OpenedWith(params)
    /\ Len(file) = gwavi.marker + 8

====
